---- MODULE Spec2Model ----
(***************************************************************************)
(* claudekeeper: the attention rendezvous (AttentionManager, attention.ts) *)
(* and the query orchestration (QueryManager, query.ts) as wired by the    *)
(* Server (server.ts).  One action per handler / event-loop turn.          *)
(***************************************************************************)
EXTENDS Integers, Sequences, FiniteSets, TLC

\* ---------------------------------------------------------------- bounds
MaxRuns  == 2    \* runQuery invocations
MaxPerms == 1    \* canUseTool invocations, all runs together
MaxMsgs  == 1    \* engine messages, all runs together
StreamMsgs == 3  \* engine messages, all runs together, in StreamSpec
RegResolves == 2 \* resolve calls that return true, in RegistrySpec

\* ---------------------------------------------------------------- values
Undefined == "undefined"          \* the JS value undefined / an absent key

Runs == 1..MaxRuns

\* ids handed to runQuery by POST /sessions: `pending_<Date.now()>`
TempNames == <<"pending_1", "pending_2", "pending_3", "pending_4">>
TempIds == {TempNames[r] : r \in Runs}
\* ids the SDK reports in msg.sessionId: one per new session
RealNames == <<"abc", "def", "ghi", "jkl">>
RealIds == {RealNames[r] : r \in Runs}
SessionIds == TempIds \cup RealIds

\* createId(): a fresh random id per attention.  The k-th permission
\* attention of the system is k, the completion or error attention of run r
\* is MaxPerms + r, UnknownId is never created
PermIds == 1..MaxPerms
TerminalId(r) == MaxPerms + r
AttnIds == 1..(MaxPerms + MaxRuns)
UnknownId == 0

\* JS truthiness of a string-or-undefined value
Truthy(v) == v \notin {Undefined, ""}

\* what the engine hands to canUseTool
ToolNames  == {"Edit"}
ToolInputs == {Undefined, "", "{file:a.ts}"}
ToolUseIds == {"toolu_1", "toolu_2"}

\* what POST /attention/:id/resolve carries in its body
Behaviors  == {"allow", "deny", "allowAlways"}
Messages   == {Undefined, "", "not this file"}
BodyInputs == {Undefined, "{file:other.ts}"}
Resolutions == [behavior : Behaviors, message : Messages, updatedInput : BodyInputs]

\* failure texts of the engine's event sequence
ErrorMsgs == {"Operation aborted", "boom"}

\* ---------------------------------------------------------------- state
VARIABLES
  pending,       \* AttentionManager.pending: Map in insertion order
  resolvers,     \* AttentionManager.resolvers: id -> promise it fulfils
  settled,       \* promises fulfilled by a resolver, continuation not yet run
  awaiting,      \* canUseTool invocations suspended at `await
                 \* waitForResolution`: attention id -> run
  returned,      \* payload each canUseTool invocation returned to the engine
  interactions,  \* ~/.claudekeeper/sessions/<id>/interactions.jsonl per session
  amSink,        \* events published through AttentionManager.broadcast
  activeQueries, \* QueryManager.activeQueries: session id -> run (0: no entry)
  run,           \* per runQuery invocation: its locals and position
  sink,          \* events each run published through QueryManager.broadcast
  okResolves,    \* per attention id: number of resolve calls that returned true
  lastCall       \* the transport call made by the step just taken, its outcome

vars == <<pending, resolvers, settled, awaiting, returned, interactions, amSink,
          activeQueries, run, sink, okResolves, lastCall>>

amVars    == <<pending, resolvers, settled, interactions, amSink, okResolves>>
queryVars == <<activeQueries, run, sink, awaiting, returned>>

\* ---------------------------------------------------------------- Map helpers
\* position of key id in the insertion-ordered Map, 0 when absent
MapIndex(m, id) ==
  IF \E i \in 1..Len(m) : m[i].id = id
  THEN CHOOSE i \in 1..Len(m) : m[i].id = id
  ELSE 0

MapHas(m, id) == MapIndex(m, id) # 0

MapGet(m, id) == m[MapIndex(m, id)]

\* Map.set: a present key keeps its position, a new key goes last
MapSet(m, a) ==
  IF MapHas(m, a.id)
  THEN [m EXCEPT ![MapIndex(m, a.id)] = a]
  ELSE Append(m, a)

MapDeleteKeep(m, id) == m

\* Map.delete
MapDelete(m, id) ==
  SelectSeq(m, LAMBDA a : a.id # id)

\* drop key k from a function
Without(f, k) == [x \in (DOMAIN f) \ {k} |-> f[x]]

\* ---------------------------------------------------------------- attention.ts
createPermissionAttention(id, sessionId, toolName, input, toolUseId) ==
  [id |-> id, sessionId |-> sessionId, type |-> "permission",
   toolName |-> toolName, toolInput |-> input, toolUseId |-> toolUseId,
   message |-> Undefined]

createErrorAttention(id, sessionId, message) ==
  [id |-> id, sessionId |-> sessionId, type |-> "error",
   toolName |-> Undefined, toolInput |-> Undefined, toolUseId |-> Undefined,
   message |-> message]

createCompletionAttention(id, sessionId, message) ==
  [id |-> id, sessionId |-> sessionId, type |-> "completion",
   toolName |-> Undefined, toolInput |-> Undefined, toolUseId |-> Undefined,
   message |-> message]

\* the broadcast argument the Server passes to `new AttentionManager()`
AttentionBroadcast == FALSE

\* AttentionManager.getPending
getPending == pending

\* the ResolvedInteraction built by resolve
Interaction(attention, resolution) ==
  [id |-> attention.id, type |-> attention.type,
   toolName |-> attention.toolName, toolInput |-> attention.toolInput,
   resolution |-> resolution.behavior, message |-> resolution.message]

\* resolution.message || 'Denied by user'
DenyMessage(message) ==
  IF Truthy(message) THEN message ELSE "Denied by user"

UpdatedInputFromBody(attention, resolution) ==
  IF resolution.behavior = "allow" /\ resolution.updatedInput # Undefined
  THEN resolution.updatedInput
  ELSE IF resolution.behavior = "allow" /\ attention.toolInput # Undefined
  THEN attention.toolInput
  ELSE Undefined

\* the updatedInput key of the SDK result
UpdatedInput(attention, resolution) ==
  IF resolution.behavior = "allow" /\ attention.toolInput # Undefined
  THEN attention.toolInput
  ELSE Undefined

\* a result that treats every behavior but deny as allow and passes the
\* message of the body through
BuildResultLenient(attention, resolution) ==
  [behavior |-> resolution.behavior,
   toolUseID |-> IF Truthy(attention.toolUseId) THEN attention.toolUseId
                 ELSE Undefined,
   updatedInput |-> IF resolution.behavior # "deny" THEN attention.toolInput
                    ELSE Undefined,
   message |-> IF resolution.behavior = "deny"
               THEN DenyMessage(resolution.message) ELSE resolution.message]

\* the SDK-compatible result handed to the resolver; an absent key reads
\* as Undefined
BuildResult(attention, resolution) ==
  [behavior |-> resolution.behavior,
   toolUseID |-> IF Truthy(attention.toolUseId) THEN attention.toolUseId
                 ELSE Undefined,
   updatedInput |-> UpdatedInput(attention, resolution),
   message |-> IF resolution.behavior = "deny"
               THEN DenyMessage(resolution.message) ELSE Undefined]

AppendInteractionUnderOther(store, sessionId, interaction) ==
  LET other == CHOOSE s \in SessionIds : s # sessionId
  IN [store EXCEPT ![other] = Append(@, interaction)]

\* session-meta.ts appendInteraction, when the file system accepts the write
appendInteraction(store, sessionId, interaction) ==
  [store EXCEPT ![sessionId] = Append(@, interaction)]

Capped(n) == IF n >= 2 THEN 2 ELSE n + 1

\* ---------------------------------------------------------------- events
MessageEvent(sessionId, n, msgSessionId) ==
  [type |-> "session:message", sessionId |-> sessionId,
   message |-> [n |-> n, sessionId |-> msgSessionId]]

RequestedEvent(attention) ==
  [type |-> "attention:requested", attention |-> attention]

ResolvedEvent(id) ==
  [type |-> "attention:resolved", attentionId |-> id]

CreatedEvent(realSessionId, tempId) ==
  [type |-> "session:created", session |-> realSessionId, tempId |-> tempId]

EndedEvent(sessionId, reason) ==
  [type |-> "session:ended", sessionId |-> sessionId, reason |-> reason]

InteractionEvent(sessionId, interaction) ==
  [type |-> "interaction:resolved", sessionId |-> sessionId,
   interaction |-> interaction]

\* ---------------------------------------------------------------- transport
NoBody == [behavior |-> Undefined, message |-> Undefined,
           updatedInput |-> Undefined]

NoCall == [op |-> "none", attnId |-> UnknownId, sessionId |-> Undefined,
           body |-> NoBody, ret |-> "none", http |-> 0]

ResolveRouteAlwaysOk(ret) ==
  IF ret = "throw" THEN 500 ELSE 200

\* POST /attention/:id/resolve: the status the route answers with
ResolveRoute(ret) ==
  IF ret = "throw" THEN 500
  ELSE IF ret = "false" THEN 404
  ELSE 200

\* ---------------------------------------------------------------- AttentionManager
\* an add that appends without looking for the key
addAppend(attention) ==
  pending' = Append(pending, attention)

\* AttentionManager.add
add(attention) ==
  pending' = MapSet(pending, attention)

\* a waitForResolution that keeps an earlier registration
waitForResolutionKeepFirst(id, p) ==
  resolvers' = IF id \in DOMAIN resolvers THEN resolvers ELSE (id :> p) @@ resolvers

\* AttentionManager.waitForResolution: the new promise p is the one
\* resolve(id, _) will fulfil
waitForResolution(id, p) ==
  resolvers' = (id :> p) @@ resolvers

\* how a resolve(id, _) call ends: "false" (unknown id), "throw"
\* (appendInteraction throws, nothing in resolve catches it) or "true"
ResolveOutcome(id, fsOk) ==
  IF ~MapHas(pending, id) THEN "false"
  ELSE IF ~fsOk THEN "throw"
  ELSE "true"

WakeNobody(id, result) ==
  /\ settled' = settled
  /\ resolvers' = Without(resolvers, id)

\* resolve, lines 94-114: hand the result to the registered resolver
WakeResolver(id, result) ==
  IF id \in DOMAIN resolvers
  THEN /\ settled' = (resolvers[id] :> result) @@ settled
       /\ resolvers' = Without(resolvers, id)
  ELSE UNCHANGED <<settled, resolvers>>

\* resolve with `this.pending.delete(id)` moved inside `if (resolver)`
resolveDeleteInsideIf(id, resolution, fsOk) ==
  IF ResolveOutcome(id, fsOk) = "true"
  THEN LET attention == MapGet(pending, id)
           interaction == Interaction(attention, resolution)
       IN /\ interactions' =
               appendInteraction(interactions, attention.sessionId, interaction)
          /\ amSink' = IF AttentionBroadcast
                       THEN Append(amSink,
                                   InteractionEvent(attention.sessionId, interaction))
                       ELSE amSink
          /\ WakeResolver(id, BuildResult(attention, resolution))
          /\ pending' = IF id \in DOMAIN resolvers
                        THEN MapDelete(pending, id) ELSE pending
          /\ okResolves' = [okResolves EXCEPT ![id] = Capped(@)]
  ELSE UNCHANGED amVars

\* AttentionManager.resolve
resolve(id, resolution, fsOk) ==
  IF ResolveOutcome(id, fsOk) = "true"
  THEN LET attention == MapGet(pending, id)
           interaction == Interaction(attention, resolution)
       IN /\ interactions' =
               appendInteraction(interactions, attention.sessionId, interaction)
          /\ amSink' = IF AttentionBroadcast
                       THEN Append(amSink,
                                   InteractionEvent(attention.sessionId, interaction))
                       ELSE amSink
          /\ WakeResolver(id, BuildResult(attention, resolution))
          /\ pending' = MapDelete(pending, id)
          /\ okResolves' = [okResolves EXCEPT ![id] = Capped(@)]
  ELSE UNCHANGED amVars

\* a clearForSession that fulfils the promises of the items it drops
clearForSessionWaking(sessionId) ==
  LET gone == {pending[i].id : i \in {j \in 1..Len(pending) :
                                        pending[j].sessionId = sessionId}}
      woken == gone \cap DOMAIN resolvers
  IN /\ pending' = SelectSeq(pending, LAMBDA a : a.sessionId # sessionId)
     /\ resolvers' = [x \in (DOMAIN resolvers) \ gone |-> resolvers[x]]
     /\ settled' = [x \in woken |->
                      [behavior |-> "deny", toolUseID |-> Undefined,
                       updatedInput |-> Undefined, message |-> "cleared"]]
                    @@ settled
     /\ UNCHANGED <<interactions, amSink, okResolves>>

\* a clearForSession that empties the registry
clearForSessionAll(sessionId) ==
  /\ pending' = <<>>
  /\ resolvers' = <<>>
  /\ UNCHANGED <<settled, interactions, amSink, okResolves>>

\* AttentionManager.clearForSession
clearForSession(sessionId) ==
  LET gone == {pending[i].id : i \in {j \in 1..Len(pending) :
                                        pending[j].sessionId = sessionId}}
  IN /\ pending' = SelectSeq(pending, LAMBDA a : a.sessionId # sessionId)
     /\ resolvers' = [x \in (DOMAIN resolvers) \ gone |-> resolvers[x]]
     /\ UNCHANGED <<settled, interactions, amSink, okResolves>>

\* ---------------------------------------------------------------- QueryManager
\* an effective id that never moves on to the real id
EffectiveIdTemp(q) == q.tempId

\* realSessionId ?? tempId
EffectiveId(q) ==
  IF q.realSessionId # Undefined THEN q.realSessionId ELSE q.tempId

Outstanding(r) == \E id \in DOMAIN awaiting : awaiting[id] = r

\* engine messages consumed and canUseTool invocations made so far
RECURSIVE SumOver(_, _)
SumOver(f, S) ==
  IF S = {} THEN 0
  ELSE LET x == CHOOSE y \in S : TRUE IN f[x] + SumOver(f, S \ {x})

MsgCount == SumOver([r \in Runs |-> run[r].nmsg], Runs)
PermCount == SumOver([r \in Runs |-> run[r].nperm], Runs)

\* an engine that stands still while any callback of any run is suspended
BlockedByAny(r) == awaiting # <<>> /\ ~run[r].aborted

\* the engine awaits the callback's result before it proceeds
Blocked(r) == Outstanding(r) /\ ~run[r].aborted

\* a sink that puts new events in front of the earlier ones
PublishFront(r, events) ==
  sink' = [sink EXCEPT ![r] = events \o @]

\* this.broadcast(event), once for each event in turn
Publish(r, events) ==
  sink' = [sink EXCEPT ![r] = @ \o events]

\* errorMsg.includes('abort')
IncludesAbort(errorMsg) == errorMsg = "Operation aborted"

\* a finally block that forgets the real key
DeregisterTempOnly(table, q) ==
  [sid \in SessionIds |-> IF sid = q.tempId THEN 0 ELSE table[sid]]

\* the finally block of runQuery: both keys leave the table
Deregister(table, q) ==
  [sid \in SessionIds |->
     IF sid = q.tempId \/ (q.realSessionId # Undefined /\ sid = q.realSessionId)
     THEN 0 ELSE table[sid]]

\* QueryManager.runQuery up to the first await of the event sequence
runQuery(r, tempId) ==
  /\ run[r].pc = "idle"
  /\ IF r = 1 THEN TRUE ELSE run[r - 1].pc # "idle"
  /\ run' = [run EXCEPT ![r].pc = "streaming", ![r].tempId = tempId]
  /\ activeQueries' = [activeQueries EXCEPT ![tempId] = r]
  /\ lastCall' = NoCall
  /\ UNCHANGED <<sink, awaiting, returned>>
  /\ UNCHANGED amVars

\* a swap that leaves the temporary key in the table
EngineMessageKeepTemp(r, msgSessionId) ==
  /\ run[r].pc = "streaming"
  /\ ~Blocked(r)
  /\ LET swap == Truthy(msgSessionId) /\ run[r].realSessionId = Undefined
         q == IF swap THEN [run[r] EXCEPT !.realSessionId = msgSessionId,
                                          !.timer = TRUE]
              ELSE run[r]
     IN /\ run' = [run EXCEPT ![r] = [q EXCEPT !.nmsg = @ + 1]]
        /\ activeQueries' =
             IF swap
             THEN [activeQueries EXCEPT ![msgSessionId] = r]
             ELSE activeQueries
        /\ Publish(r, <<MessageEvent(EffectiveId(q), run[r].nmsg + 1, msgSessionId)>>)
  /\ lastCall' = NoCall
  /\ UNCHANGED <<awaiting, returned>>
  /\ UNCHANGED amVars

\* a swap that does not insert the real key
EngineMessageNoRegister(r, msgSessionId) ==
  /\ run[r].pc = "streaming"
  /\ ~Blocked(r)
  /\ LET swap == Truthy(msgSessionId) /\ run[r].realSessionId = Undefined
         q == IF swap THEN [run[r] EXCEPT !.realSessionId = msgSessionId,
                                          !.timer = TRUE]
              ELSE run[r]
     IN /\ run' = [run EXCEPT ![r] = [q EXCEPT !.nmsg = @ + 1]]
        /\ activeQueries' =
             IF swap
             THEN [activeQueries EXCEPT ![run[r].tempId] = 0]
             ELSE activeQueries
        /\ Publish(r, <<MessageEvent(EffectiveId(q), run[r].nmsg + 1, msgSessionId)>>)
  /\ lastCall' = NoCall
  /\ UNCHANGED <<awaiting, returned>>
  /\ UNCHANGED amVars

\* a loop body that takes over the sessionId of every event that carries one
EngineMessageEveryId(r, msgSessionId) ==
  /\ run[r].pc = "streaming"
  /\ ~Blocked(r)
  /\ LET swap == Truthy(msgSessionId)
         q == IF swap THEN [run[r] EXCEPT !.realSessionId = msgSessionId,
                                          !.timer = TRUE]
              ELSE run[r]
     IN /\ run' = [run EXCEPT ![r] = [q EXCEPT !.nmsg = @ + 1]]
        /\ activeQueries' =
             IF swap
             THEN [[activeQueries EXCEPT ![run[r].tempId] = 0]
                     EXCEPT ![msgSessionId] = r]
             ELSE activeQueries
        /\ Publish(r, <<MessageEvent(EffectiveId(q), run[r].nmsg + 1, msgSessionId)>>)
  /\ lastCall' = NoCall
  /\ UNCHANGED <<awaiting, returned>>
  /\ UNCHANGED amVars

\* one turn of the `for await` loop body
EngineMessage(r, msgSessionId) ==
  /\ run[r].pc = "streaming"
  /\ ~Blocked(r)
  /\ LET swap == Truthy(msgSessionId) /\ run[r].realSessionId = Undefined
         q == IF swap THEN [run[r] EXCEPT !.realSessionId = msgSessionId,
                                          !.timer = TRUE]
              ELSE run[r]
     IN /\ run' = [run EXCEPT ![r] = [q EXCEPT !.nmsg = @ + 1]]
        /\ activeQueries' =
             IF swap
             THEN [[activeQueries EXCEPT ![run[r].tempId] = 0]
                     EXCEPT ![msgSessionId] = r]
             ELSE activeQueries
        /\ Publish(r, <<MessageEvent(EffectiveId(q), run[r].nmsg + 1, msgSessionId)>>)
  /\ lastCall' = NoCall
  /\ UNCHANGED <<awaiting, returned>>
  /\ UNCHANGED amVars

\* the setTimeout callback armed by the identity swap
TimerFire(r) ==
  /\ run[r].timer
  /\ run' = [run EXCEPT ![r].timer = FALSE]
  /\ Publish(r, <<CreatedEvent(run[r].realSessionId, run[r].tempId)>>)
  /\ lastCall' = NoCall
  /\ UNCHANGED <<activeQueries, awaiting, returned>>
  /\ UNCHANGED amVars

\* a callback that yields to the event loop between add and waitForResolution
canUseToolYielding(r, toolName, input, toolUseID) ==
  /\ run[r].pc = "streaming"
  /\ ~run[r].aborted
  /\ PermCount < MaxPerms
  /\ ~Outstanding(r)
  /\ LET id == PermCount + 1
         attention == createPermissionAttention(id, EffectiveId(run[r]),
                                                toolName, input, toolUseID)
     IN /\ add(attention)
        /\ Publish(r, <<RequestedEvent(attention)>>)
        /\ awaiting' = (id :> r) @@ awaiting
  /\ run' = [run EXCEPT ![r].nperm = @ + 1]
  /\ lastCall' = NoCall
  /\ UNCHANGED <<activeQueries, returned, resolvers, settled, interactions, amSink,
                 okResolves>>

\* canUseTool up to its await
canUseTool(r, toolName, input, toolUseID) ==
  /\ run[r].pc = "streaming"
  /\ ~run[r].aborted
  /\ PermCount < MaxPerms
  /\ ~Outstanding(r)
  /\ LET id == PermCount + 1
         attention == createPermissionAttention(id, EffectiveId(run[r]),
                                                toolName, input, toolUseID)
     IN /\ add(attention)
        /\ Publish(r, <<RequestedEvent(attention)>>)
        /\ waitForResolution(id, id)
        /\ awaiting' = (id :> r) @@ awaiting
  /\ run' = [run EXCEPT ![r].nperm = @ + 1]
  /\ lastCall' = NoCall
  /\ UNCHANGED <<activeQueries, returned, settled, interactions, amSink, okResolves>>

CallbackResumeUnwoken(id) ==
  /\ id \in DOMAIN awaiting
  /\ id \notin DOMAIN settled
  /\ awaiting' = Without(awaiting, id)
  /\ returned' = (id :> [behavior |-> "deny", toolUseID |-> Undefined,
                         updatedInput |-> Undefined, message |-> "timeout"])
                  @@ returned
  /\ Publish(awaiting[id], <<ResolvedEvent(id)>>)
  /\ lastCall' = NoCall
  /\ UNCHANGED <<activeQueries, run, pending, resolvers, settled, interactions,
                 amSink, okResolves>>

\* a continuation that hands the engine a payload of its own making
CallbackResumeRewritten(id) ==
  /\ id \in DOMAIN awaiting
  /\ id \in DOMAIN settled
  /\ awaiting' = Without(awaiting, id)
  /\ returned' = (id :> [settled[id] EXCEPT !.behavior = "allow"]) @@ returned
  /\ settled' = Without(settled, id)
  /\ Publish(awaiting[id], <<ResolvedEvent(id)>>)
  /\ lastCall' = NoCall
  /\ UNCHANGED <<activeQueries, run, pending, resolvers, interactions, amSink,
                 okResolves>>

\* canUseTool after its await: the continuation of the fulfilled promise
CallbackResume(id) ==
  /\ id \in DOMAIN awaiting
  /\ id \in DOMAIN settled
  /\ awaiting' = Without(awaiting, id)
  /\ returned' = (id :> settled[id]) @@ returned
  /\ settled' = Without(settled, id)
  /\ Publish(awaiting[id], <<ResolvedEvent(id)>>)
  /\ lastCall' = NoCall
  /\ UNCHANGED <<activeQueries, run, pending, resolvers, interactions, amSink,
                 okResolves>>

\* an exhaustion that announces the completion item without enqueuing it
EngineDoneUnlisted(r) ==
  /\ run[r].pc = "streaming"
  /\ ~Blocked(r)
  /\ LET completion == createCompletionAttention(TerminalId(r),
                                                 EffectiveId(run[r]),
                                                 "Query completed")
     IN /\ UNCHANGED pending
        /\ Publish(r, <<RequestedEvent(completion),
                        EndedEvent(EffectiveId(run[r]), "completed")>>)
  /\ activeQueries' = Deregister(activeQueries, run[r])
  /\ run' = [run EXCEPT ![r].pc = "done"]
  /\ lastCall' = NoCall
  /\ UNCHANGED <<awaiting, returned, resolvers, settled, interactions, amSink,
                 okResolves>>

\* the event sequence is exhausted: completion attention, then finally
EngineDone(r) ==
  /\ run[r].pc = "streaming"
  /\ ~Blocked(r)
  /\ LET completion == createCompletionAttention(TerminalId(r),
                                                 EffectiveId(run[r]),
                                                 "Query completed")
     IN /\ add(completion)
        /\ Publish(r, <<RequestedEvent(completion),
                        EndedEvent(EffectiveId(run[r]), "completed")>>)
  /\ activeQueries' = Deregister(activeQueries, run[r])
  /\ run' = [run EXCEPT ![r].pc = "done"]
  /\ lastCall' = NoCall
  /\ UNCHANGED <<awaiting, returned, resolvers, settled, interactions, amSink,
                 okResolves>>

\* a failure that no catch block takes: the promise of runQuery rejects
EngineThrowEscapes(r, errorMsg) ==
  /\ run[r].pc = "streaming"
  /\ activeQueries' = Deregister(activeQueries, run[r])
  /\ run' = [run EXCEPT ![r].pc = "rejected", ![r].failure = errorMsg]
  /\ lastCall' = NoCall
  /\ UNCHANGED <<sink, awaiting, returned>>
  /\ UNCHANGED amVars

\* the event sequence throws: catch, then finally
EngineThrow(r, errorMsg) ==
  /\ run[r].pc = "streaming"
  /\ IF IncludesAbort(errorMsg)
     THEN /\ Publish(r, <<EndedEvent(EffectiveId(run[r]), "interrupted"),
                          EndedEvent(EffectiveId(run[r]), "completed")>>)
          /\ UNCHANGED pending
     ELSE LET attention == createErrorAttention(TerminalId(r),
                                                EffectiveId(run[r]), errorMsg)
          IN /\ add(attention)
             /\ Publish(r, <<RequestedEvent(attention),
                             EndedEvent(EffectiveId(run[r]), "completed")>>)
  /\ activeQueries' = Deregister(activeQueries, run[r])
  /\ run' = [run EXCEPT ![r].pc = "done", ![r].failure = errorMsg]
  /\ lastCall' = NoCall
  /\ UNCHANGED <<awaiting, returned, resolvers, settled, interactions, amSink,
                 okResolves>>

\* an interrupt that leaves the key in the table
interruptKeepKey(sessionId) ==
  LET active == activeQueries[sessionId]
  IN /\ IF active # 0
        THEN /\ run' = [run EXCEPT ![active].aborted = TRUE]
             /\ UNCHANGED activeQueries
        ELSE UNCHANGED <<run, activeQueries>>
     /\ lastCall' = [op |-> "interrupt", attnId |-> UnknownId,
                     sessionId |-> sessionId, body |-> NoBody,
                     ret |-> IF active # 0 THEN "true" ELSE "false", http |-> 200]
     /\ UNCHANGED <<sink, awaiting, returned>>
     /\ UNCHANGED amVars

\* an interrupt that drops the key without signalling the handle
interruptNoAbort(sessionId) ==
  LET active == activeQueries[sessionId]
  IN /\ IF active # 0
        THEN /\ activeQueries' = [activeQueries EXCEPT ![sessionId] = 0]
             /\ UNCHANGED run
        ELSE UNCHANGED <<run, activeQueries>>
     /\ lastCall' = [op |-> "interrupt", attnId |-> UnknownId,
                     sessionId |-> sessionId, body |-> NoBody,
                     ret |-> IF active # 0 THEN "true" ELSE "false", http |-> 200]
     /\ UNCHANGED <<sink, awaiting, returned>>
     /\ UNCHANGED amVars

\* an interrupt that also drops the pending items of the session
interruptAndClear(sessionId) ==
  LET active == activeQueries[sessionId]
  IN /\ IF active # 0
        THEN /\ run' = [run EXCEPT ![active].aborted = TRUE]
             /\ activeQueries' = [activeQueries EXCEPT ![sessionId] = 0]
        ELSE UNCHANGED <<run, activeQueries>>
     /\ lastCall' = [op |-> "interrupt", attnId |-> UnknownId,
                     sessionId |-> sessionId, body |-> NoBody,
                     ret |-> IF active # 0 THEN "true" ELSE "false", http |-> 200]
     /\ UNCHANGED <<sink, awaiting, returned>>
     /\ clearForSession(sessionId)

\* QueryManager.interrupt behind POST /sessions/:id/interrupt
interrupt(sessionId) ==
  LET active == activeQueries[sessionId]
  IN /\ IF active # 0
        THEN /\ run' = [run EXCEPT ![active].aborted = TRUE]
             /\ activeQueries' = [activeQueries EXCEPT ![sessionId] = 0]
        ELSE UNCHANGED <<run, activeQueries>>
     /\ lastCall' = [op |-> "interrupt", attnId |-> UnknownId,
                     sessionId |-> sessionId, body |-> NoBody,
                     ret |-> IF active # 0 THEN "true" ELSE "false", http |-> 200]
     /\ UNCHANGED <<sink, awaiting, returned>>
     /\ UNCHANGED amVars

\* POST /attention/:id/resolve
PostResolve(id, resolution, fsOk) ==
  /\ resolve(id, resolution, fsOk)
  /\ lastCall' = [op |-> "resolve", attnId |-> id, sessionId |-> Undefined,
                  body |-> resolution, ret |-> ResolveOutcome(id, fsOk),
                  http |-> ResolveRoute(ResolveOutcome(id, fsOk))]
  /\ UNCHANGED queryVars

\* clearForSession called by a teardown path
ClearForSession(sessionId) ==
  /\ clearForSession(sessionId)
  /\ lastCall' = NoCall
  /\ UNCHANGED queryVars

\* ---------------------------------------------------------------- the wired system
InitRun == [pc |-> "idle", tempId |-> Undefined, realSessionId |-> Undefined,
            aborted |-> FALSE, nmsg |-> 0, nperm |-> 0, timer |-> FALSE,
            failure |-> Undefined]

\* the state after `new Server(config)`
Init ==
  /\ pending = <<>>
  /\ resolvers = <<>>
  /\ settled = <<>>
  /\ awaiting = <<>>
  /\ returned = <<>>
  /\ interactions = [s \in SessionIds |-> <<>>]
  /\ amSink = <<>>
  /\ activeQueries = [s \in SessionIds |-> 0]
  /\ run = [r \in Runs |-> InitRun]
  /\ sink = [r \in Runs |-> <<>>]
  /\ okResolves = [id \in AttnIds \cup {UnknownId} |-> 0]
  /\ lastCall = NoCall

\* the inputs the wired system is explored with
WireInputs == {"{file:a.ts}"}
WireToolUseIds == {"toolu_1"}
WireResolutions ==
  {[behavior |-> "allow", message |-> Undefined, updatedInput |-> Undefined]}

Next ==
  \/ \E r \in Runs : runQuery(r, TempNames[r])
  \/ \E r \in Runs : \E sid \in {Undefined, RealNames[r]} :
       MsgCount < MaxMsgs /\ EngineMessage(r, sid)
  \/ \E r \in Runs : TimerFire(r)
  \/ \E r \in Runs, n \in ToolNames, i \in WireInputs, t \in WireToolUseIds :
       canUseTool(r, n, i, t)
  \/ \E id \in PermIds : CallbackResume(id)
  \/ \E r \in Runs : EngineDone(r)
  \/ \E r \in Runs, e \in ErrorMsgs : EngineThrow(r, e)
  \/ \E sid \in SessionIds : interrupt(sid)
  \/ \E id \in AttnIds \cup {UnknownId}, res \in WireResolutions, fsOk \in BOOLEAN :
       PostResolve(id, res, fsOk)
  \/ \E sid \in SessionIds : ClearForSession(sid)

Spec == Init /\ [][Next]_vars

\* the rendezvous of one run, explored over every tool input and every
\* resolution body
PayloadNext ==
  \/ runQuery(1, TempNames[1])
  \/ \E n \in ToolNames, i \in ToolInputs, t \in ToolUseIds : canUseTool(1, n, i, t)
  \/ \E id \in PermIds \cup {UnknownId}, res \in Resolutions :
       PostResolve(id, res, TRUE)
  \/ \E id \in PermIds : CallbackResume(id)

PayloadSpec == Init /\ [][PayloadNext]_vars

\* the table and the event stream alone: runs with several engine messages,
\* no permission requests
StreamNext ==
  \/ \E r \in Runs :
       /\ IF r = 1 THEN TRUE ELSE run[r - 1].pc # "idle"
       /\ runQuery(r, TempNames[r])
  \/ \E r \in Runs : \E sid \in {Undefined, RealNames[r]} :
       MsgCount < StreamMsgs /\ EngineMessage(r, sid)
  \/ \E r \in Runs : TimerFire(r)
  \/ \E r \in Runs : EngineDone(r)
  \/ \E r \in Runs, e \in ErrorMsgs : EngineThrow(r, e)
  \/ \E sid \in SessionIds : interrupt(sid)

StreamSpec == Init /\ [][StreamNext]_vars

\* sessions found by getSessionById when POST /sessions/:id/send arrives
ExistingIds == {RealNames[1]}

\* runs launched by POST /sessions/:id/send: runQuery(params.id, message,
\* workdir, params.id) resumes the session, whose id the engine reports back
SendNext ==
  \/ \E r \in Runs, sid \in ExistingIds : runQuery(r, sid)
  \/ \E r \in Runs : \E sid \in {Undefined, run[r].tempId} :
       MsgCount < StreamMsgs /\ EngineMessage(r, sid)
  \/ \E r \in Runs : TimerFire(r)
  \/ \E r \in Runs, n \in ToolNames, i \in WireInputs, t \in WireToolUseIds :
       canUseTool(r, n, i, t)
  \/ \E r \in Runs : EngineDone(r)
  \/ \E r \in Runs, e \in ErrorMsgs : EngineThrow(r, e)
  \/ \E sid \in ExistingIds : interrupt(sid)

SendSpec == Init /\ [][SendNext]_vars

\* the AttentionManager on its own, driven through its public methods by
\* arbitrary callers: items of any id and session, awaiters that are not
\* permission callbacks
RegistryAdd(id, sessionId, toolName, input, toolUseId) ==
  /\ add(createPermissionAttention(id, sessionId, toolName, input, toolUseId))
  /\ lastCall' = [op |-> "add", attnId |-> id, sessionId |-> sessionId,
                  body |-> NoBody,
                  ret |-> IF MapHas(pending, id) THEN "replaced" ELSE "inserted",
                  http |-> 0]
  /\ UNCHANGED <<resolvers, settled, interactions, amSink, okResolves>>
  /\ UNCHANGED queryVars

\* a caller awaits waitForResolution(id): p names the promise it is handed;
\* awaiting records, per promise, the id its caller waits for
RegistryWait(id, p) ==
  /\ p \notin DOMAIN awaiting \cup DOMAIN settled \cup DOMAIN returned
  /\ waitForResolution(id, p)
  /\ awaiting' = (p :> id) @@ awaiting
  /\ lastCall' = NoCall
  /\ UNCHANGED <<pending, settled, interactions, amSink, okResolves>>
  /\ UNCHANGED <<activeQueries, run, sink, returned>>

\* the continuation of a caller whose promise was fulfilled
RegistryResume(p) ==
  /\ p \in DOMAIN awaiting
  /\ p \in DOMAIN settled
  /\ awaiting' = Without(awaiting, p)
  /\ returned' = (p :> settled[p]) @@ returned
  /\ settled' = Without(settled, p)
  /\ lastCall' = NoCall
  /\ UNCHANGED <<pending, resolvers, interactions, amSink, okResolves>>
  /\ UNCHANGED <<activeQueries, run, sink>>

RegistrySessions == TempIds
RegistryIds == PermIds \cup {TerminalId(1)}

RegistryNext ==
  \/ \E id \in RegistryIds, sid \in RegistrySessions, n \in ToolNames,
        i \in WireInputs, t \in WireToolUseIds : RegistryAdd(id, sid, n, i, t)
  \/ \E id \in RegistryIds, p \in AttnIds : RegistryWait(id, p)
  \/ \E p \in AttnIds : RegistryResume(p)
  \/ \E id \in RegistryIds \cup {UnknownId}, res \in WireResolutions :
       /\ SumOver(okResolves, DOMAIN okResolves) < RegResolves
       /\ PostResolve(id, res, TRUE)
  \/ \E sid \in RegistrySessions : ClearForSession(sid)

RegistrySpec == Init /\ [][RegistryNext]_vars

\* getSessionById: the sessions with a transcript, written by the engine
\* under the ids it assigns; a temporary id never names one
SessionKnown(sid) ==
  \/ sid \in ExistingIds
  \/ \E r \in Runs : run[r].realSessionId = sid

\* POST /sessions: slot r stands for the request that is handed TempNames[r];
\* without a prompt nothing is stored and no run is started
PostSessions(r, hasPrompt) ==
  IF hasPrompt
  THEN /\ runQuery(r, TempNames[r])
  ELSE /\ run[r].pc = "idle"
       /\ IF r = 1 THEN TRUE ELSE run[r - 1].pc # "idle"
       /\ run' = [run EXCEPT ![r].pc = "pending", ![r].tempId = TempNames[r]]
       /\ lastCall' = [op |-> "create", attnId |-> UnknownId,
                       sessionId |-> TempNames[r], body |-> NoBody,
                       ret |-> "pending", http |-> 201]
       /\ UNCHANGED <<activeQueries, sink, awaiting, returned>>
       /\ UNCHANGED amVars

\* POST /sessions/:id/send with a message
PostSend(r, sid) ==
  IF SessionKnown(sid)
  THEN /\ run[r].pc = "idle"
       /\ IF r = 1 THEN TRUE ELSE run[r - 1].pc # "idle"
       /\ run' = [run EXCEPT ![r].pc = "streaming", ![r].tempId = sid]
       /\ activeQueries' = [activeQueries EXCEPT ![sid] = r]
       /\ lastCall' = [op |-> "send", attnId |-> UnknownId, sessionId |-> sid,
                       body |-> NoBody, ret |-> "sent", http |-> 200]
       /\ UNCHANGED <<sink, awaiting, returned>>
       /\ UNCHANGED amVars
  ELSE /\ r = 1
       /\ lastCall' = [op |-> "send", attnId |-> UnknownId, sessionId |-> sid,
                       body |-> NoBody, ret |-> "notFound", http |-> 404]
       /\ UNCHANGED <<activeQueries, run, sink, awaiting, returned>>
       /\ UNCHANGED amVars

\* the session routes in front of the QueryManager
RouteNext ==
  \/ \E r \in Runs, hasPrompt \in BOOLEAN : PostSessions(r, hasPrompt)
  \/ \E r \in Runs, sid \in SessionIds : PostSend(r, sid)
  \/ \E r \in Runs : \E sid \in {Undefined, IF run[r].tempId \in TempIds
                                               THEN RealNames[r]
                                               ELSE run[r].tempId} :
       MsgCount < MaxMsgs /\ EngineMessage(r, sid)
  \/ \E r \in Runs : TimerFire(r)
  \/ \E r \in Runs : EngineDone(r)
  \/ \E r \in Runs, e \in ErrorMsgs : EngineThrow(r, e)
  \/ \E sid \in SessionIds : interrupt(sid)

RouteSpec == Init /\ [][RouteNext]_vars

\* an engine whose events may carry any session id, a later event another
\* one than an earlier event
IdentityNext ==
  \/ \E r \in Runs : runQuery(r, TempNames[r])
  \/ \E r \in Runs : \E sid \in {Undefined} \cup RealIds :
       MsgCount < StreamMsgs /\ EngineMessage(r, sid)
  \/ \E r \in Runs : TimerFire(r)
  \/ \E r \in Runs : EngineDone(r)
  \/ \E r \in Runs, e \in ErrorMsgs : EngineThrow(r, e)
  \/ \E sid \in SessionIds : interrupt(sid)

IdentitySpec == Init /\ [][IdentityNext]_vars

\* the event loop runs the continuation of every fulfilled promise
LiveSpec == Spec /\ WF_vars(\E id \in PermIds : CallbackResume(id))

\* ---------------------------------------------------------------- history
Range(q) == {q[i] : i \in 1..Len(q)}

Published == UNION {Range(sink[r]) : r \in Runs}

\* every attention ever created, as published in attention:requested
Created == {e.attention : e \in {x \in Published : x.type = "attention:requested"}}

WasCreated(id) == \E a \in Created : a.id = id

AttentionOf(id) == CHOOSE a \in Created : a.id = id

ResolvedPublished(id) ==
  \E e \in Published : e.type = "attention:resolved" /\ e.attentionId = id

\* InteractionRecords with this id in the file of one session, in all files
RecordsIn(sessionId, id) ==
  Cardinality({i \in 1..Len(interactions[sessionId]) :
                 interactions[sessionId][i].id = id})

RecordCount(id) == SumOver([s \in SessionIds |-> RecordsIn(s, id)], SessionIds)

RecordOf(id) ==
  LET s == CHOOSE t \in SessionIds : RecordsIn(t, id) > 0
  IN interactions[s][CHOOSE i \in 1..Len(interactions[s]) :
                       interactions[s][i].id = id]

InteractionEvents(id) ==
  Cardinality({i \in 1..Len(amSink) : amSink[i].type = "interaction:resolved"
                                      /\ amSink[i].interaction.id = id})

\* payloads handed to the awaiter of id: the fulfilled promise, or what the
\* resumed callback returned to the engine
Handed(id) ==
  (IF id \in DOMAIN settled THEN {settled[id]} ELSE {}) \cup
  (IF id \in DOMAIN returned THEN {returned[id]} ELSE {})

AllIds == AttnIds \cup {UnknownId}

\* ---------------------------------------------------------------- claims

\* C1: resolve(id, _) with an id that is not pending returns false, the route
\* answers 404, and nothing changes: no InteractionRecord, no event, no
\* awaiter woken, pending set unchanged.
ResolveUnknownHasNoEffect ==
  [][(lastCall'.op = "resolve" /\ ~MapHas(pending, lastCall'.attnId))
       => /\ lastCall'.ret = "false"
          /\ lastCall'.http = 404
          /\ UNCHANGED <<pending, resolvers, settled, awaiting, returned,
                         interactions, amSink, activeQueries, run, sink,
                         okResolves>>]_vars

\* a resolve answered 404 for an item that clearForSession dropped
ResolveUnknownWitness ==
  /\ lastCall.op = "resolve"
  /\ lastCall.ret = "false"
  /\ lastCall.http = 404
  /\ WasCreated(lastCall.attnId)
  /\ okResolves[lastCall.attnId] = 0
  /\ ~MapHas(pending, lastCall.attnId)

\* C2: at most one resolve(id, _) returns true; there is never a second
\* InteractionRecord or a second interaction:resolved event for an id, and a
\* resolve that returned true is the first for its id.
ExactlyOnceResolution ==
  \A id \in AllIds :
    /\ okResolves[id] <= 1
    /\ RecordCount(id) = okResolves[id]
    /\ InteractionEvents(id) <= 1
    /\ (lastCall.op = "resolve" /\ lastCall.attnId = id /\ lastCall.ret = "true")
         => okResolves[id] = 1

\* a second resolve on an id that was resolved before: it returned false
ExactlyOnceWitness ==
  /\ lastCall.op = "resolve"
  /\ lastCall.ret = "false"
  /\ okResolves[lastCall.attnId] = 1
  /\ RecordCount(lastCall.attnId) = 1

\* C3: once resolve(id, _) has returned true, getPending() never contains
\* the item with that id.
NeverPendingAfterResolve ==
  \A id \in AllIds : okResolves[id] >= 1 => ~MapHas(getPending, id)

\* an item was resolved while other items are still listed
NeverPendingWitness ==
  \E id \in AttnIds :
    /\ okResolves[id] = 1
    /\ WasCreated(id)
    /\ Len(getPending) >= 1

\* C4: the callback suspended on item X is not woken, does not return and
\* publishes no attention:resolved unless resolve(X, _) returned true before.
RendezvousSafety ==
  \A id \in PermIds :
    (id \in DOMAIN settled \/ id \in DOMAIN returned \/ ResolvedPublished(id))
      => okResolves[id] >= 1

\* a callback still suspended after its run was interrupted and has ended
\* and after another run has ended
RendezvousSafetyWitness ==
  \E id \in DOMAIN awaiting :
    /\ id \notin DOMAIN settled
    /\ okResolves[id] = 0
    /\ run[awaiting[id]].aborted
    /\ run[awaiting[id]].pc = "done"
    /\ \E r \in Runs : r # awaiting[id] /\ run[r].pc = "done"

\* C5: when resolve(X, _) has returned true for a permission item with a
\* suspended callback, the callback eventually resumes: attention:resolved
\* is published and the payload is returned to the engine.
RendezvousLiveness ==
  \A id \in PermIds :
    (okResolves[id] >= 1 /\ id \in DOMAIN awaiting)
      ~> (id \in DOMAIN returned /\ ResolvedPublished(id))

\* resolve returned true while the callback is still suspended
RendezvousLivenessWitness ==
  \E id \in PermIds :
    /\ okResolves[id] = 1
    /\ id \in DOMAIN awaiting
    /\ id \in DOMAIN settled
    /\ lastCall.op = "resolve"

\* C6: an allow resolution hands the awaiter behavior allow, the engine's
\* toolUseID and, as updatedInput, the toolInput captured at enqueue time,
\* whatever input the resolution body carries.
AllowEchoesOriginalInput ==
  \A id \in PermIds : \A p \in Handed(id) :
    RecordOf(id).resolution = "allow"
      => /\ p.behavior = "allow"
         /\ p.toolUseID = AttentionOf(id).toolUseId
         /\ p.updatedInput = AttentionOf(id).toolInput

\* an allow whose body carries another input, for an item with a falsy input
AllowEchoesWitness ==
  \E id \in DOMAIN settled :
    /\ lastCall.op = "resolve"
    /\ lastCall.attnId = id
    /\ lastCall.body.behavior = "allow"
    /\ lastCall.body.updatedInput = "{file:other.ts}"
    /\ AttentionOf(id).toolInput = ""
    /\ settled[id].updatedInput = ""

\* C7: a deny resolution hands the awaiter the default message when the body
\* has none, and the supplied message verbatim otherwise, the empty string
\* included.
DenyMessageVerbatim ==
  \A id \in PermIds : \A p \in Handed(id) :
    RecordOf(id).resolution = "deny"
      => p.message = IF RecordOf(id).message = Undefined
                     THEN "Denied by user"
                     ELSE RecordOf(id).message

\* C8: resolve(id, _) on a known id wakes the registered awaiter, removes the
\* item and returns true even when appendInteraction fails.
PersistenceFailureNotPropagated ==
  [][(lastCall'.op = "resolve" /\ MapHas(pending, lastCall'.attnId))
       => /\ lastCall'.ret = "true"
          /\ ~MapHas(pending', lastCall'.attnId)
          /\ (lastCall'.attnId \in DOMAIN resolvers
                => resolvers[lastCall'.attnId] \in DOMAIN settled')]_vars

\* C9: an item that resolve removed from the pending set has its
\* InteractionRecord in the file of the item's own session id, and nowhere
\* else, in every state between operations.
ResolutionAtomic ==
  \A id \in AttnIds :
    (WasCreated(id) /\ okResolves[id] >= 1 /\ ~MapHas(getPending, id))
      => /\ RecordsIn(AttentionOf(id).sessionId, id) = 1
         /\ RecordCount(id) = 1

\* a resolved item created under the temp id of a run that has since
\* swapped to its real id
ResolutionAtomicWitness ==
  \E id \in PermIds : \E r \in Runs :
    /\ okResolves[id] = 1
    /\ ~MapHas(getPending, id)
    /\ WasCreated(id)
    /\ AttentionOf(id).sessionId = run[r].tempId
    /\ run[r].realSessionId # Undefined
    /\ RecordsIn(run[r].tempId, id) = 1

\* C10: every resolve on a known id publishes exactly one
\* interaction:resolved event, in the system as wired by the Server.
InteractionResolvedPublished ==
  \A id \in AttnIds : okResolves[id] = 1 => InteractionEvents(id) = 1

\* the step is a call of POST /sessions/:id/interrupt
Interrupting == lastCall'.op = "interrupt"

\* ---------------------------------------------------------------------------
\* C11: interrupt(id) returns true exactly when id is a key of the table at
\* the time of the call; it then signals the handle stored under id and
\* removes the key, so that the same call made again at once returns false;
\* for an absent id it returns false and changes nothing.
InterruptContract ==
  [][Interrupting =>
       LET sid == lastCall'.sessionId
           active == activeQueries[sid]
       IN /\ lastCall'.ret = (IF active # 0 THEN "true" ELSE "false")
          /\ lastCall'.http = 200
          /\ active # 0 =>
               /\ run'[active].aborted
               /\ activeQueries' = [activeQueries EXCEPT ![sid] = 0]
               /\ \A r \in Runs \ {active} : run'[r] = run[r]
          /\ active = 0 => UNCHANGED <<run, activeQueries>>
          /\ UNCHANGED <<sink, awaiting, returned>>
          /\ UNCHANGED amVars]_vars

\* an interrupt has returned true for a running run
InterruptContractWitness ==
  /\ lastCall.op = "interrupt"
  /\ lastCall.ret = "true"
  /\ activeQueries[lastCall.sessionId] = 0
  /\ \E r \in Runs : run[r].pc = "streaming" /\ run[r].aborted

\* run r has learned a real id different from its temporary id and is running
Swapped(r) ==
  /\ run[r].pc = "streaming"
  /\ run[r].realSessionId # Undefined
  /\ run[r].realSessionId # run[r].tempId

\* ---------------------------------------------------------------------------
\* C12: once a running run has swapped its temporary id for a different real
\* id, interrupt(tempId) returns false and leaves the run alone, and
\* interrupt(realId) returns true and signals the run's own handle, the one
\* the temporary entry held.
InterruptAfterSwap ==
  [][Interrupting =>
       \A r \in Runs :
         (Swapped(r) /\ ~run[r].aborted) =>
           /\ lastCall'.sessionId = run[r].tempId =>
                (lastCall'.ret = "false" /\ run'[r] = run[r])
           /\ lastCall'.sessionId = run[r].realSessionId =>
                (lastCall'.ret = "true" /\ run'[r].aborted)]_vars

\* one swapped run was cancelled under its real id, and an interrupt under
\* the temporary id of another swapped run has just returned false
InterruptAfterSwapWitness ==
  \E r, o \in Runs :
    /\ r # o
    /\ Swapped(r) /\ ~run[r].aborted
    /\ lastCall.op = "interrupt"
    /\ lastCall.sessionId = run[r].tempId
    /\ lastCall.ret = "false"
    /\ Swapped(o) /\ run[o].aborted
    /\ activeQueries[run[o].realSessionId] = 0

KeysOf(r) == {sid \in SessionIds : activeQueries[sid] = r}

\* ---------------------------------------------------------------------------
\* C14: a run never has more than one table entry, and a running run that
\* was not interrupted has exactly one, under its effective id; the swap
\* step takes the temporary key out and puts the real key in at once, the
\* new entry standing for the same run (the same abortController).
SwapInvariant ==
  /\ [](\A r \in Runs :
          /\ Cardinality(KeysOf(r)) <= 1
          /\ (run[r].pc = "streaming" /\ ~run[r].aborted) =>
               KeysOf(r) = {EffectiveId(run[r])})
  /\ [][\A r \in Runs :
          (run[r].realSessionId = Undefined /\ run'[r].realSessionId # Undefined) =>
            /\ activeQueries'[run[r].tempId] = 0
            /\ activeQueries'[run'[r].realSessionId] = r
            /\ \A sid \in SessionIds \ {run[r].tempId, run'[r].realSessionId} :
                 activeQueries'[sid] = activeQueries[sid]]_vars

\* a run swapped at its second message and holds only its real key
SwapInvariantWitness ==
  \E r \in Runs :
    /\ Swapped(r) /\ ~run[r].aborted
    /\ run[r].nmsg = 2
    /\ \E i \in 1..Len(sink[r]) :
         /\ sink[r][i].type = "session:message"
         /\ sink[r][i].sessionId = run[r].tempId
    /\ KeysOf(r) = {run[r].realSessionId}

\* positions of run r's events of one type, and its session:message events in
\* publication order
IndicesOf(r, type) == {i \in 1..Len(sink[r]) : sink[r][i].type = type}
IsMessage(e) == e.type = "session:message"
MessagesOf(r) == SelectSeq(sink[r], IsMessage)

\* ---------------------------------------------------------------------------
\* C15: session:created is published at most once for a run, and every
\* session:message published after it carries the real id, every one
\* published before it the temporary id.
CreatedSplitsMessages ==
  \A r \in Runs :
    /\ Cardinality(IndicesOf(r, "session:created")) <= 1
    /\ \A j \in IndicesOf(r, "session:message") :
         sink[r][j].sessionId =
           (IF \E i \in IndicesOf(r, "session:created") : i < j
            THEN run[r].realSessionId ELSE run[r].tempId)

\* the session id an event carries, Undefined for the events that carry none
\* (attention:resolved) or carry both (session:created)
CarriedId(e) ==
  CASE e.type \in {"session:message", "session:ended"} -> e.sessionId
    [] e.type = "attention:requested" -> e.attention.sessionId
    [] OTHER -> Undefined

\* the event at position i of run r's sink was published after the swap: the
\* session:message of the swap event is at or before i
AfterSwap(r, i) ==
  \E j \in 1..i : IsMessage(sink[r][j]) /\ Truthy(sink[r][j].message.sessionId)

\* ---------------------------------------------------------------------------
\* C16: every session:message and session:ended a run publishes and every
\* attention item it creates (permission, completion, error) carries the
\* real id when it comes after the run's identity swap and the temporary id
\* when it comes before.
EffectiveIdCarried ==
  \A r \in Runs : \A i \in 1..Len(sink[r]) :
    CarriedId(sink[r][i]) # Undefined =>
      CarriedId(sink[r][i]) =
        (IF AfterSwap(r, i) THEN run[r].realSessionId ELSE run[r].tempId)

\* a finished run asked for a permission after its swap and ended under its
\* real id, while another run ended without a swap under its temporary id
EffectiveIdCarriedWitness ==
  \E r, o \in Runs :
    /\ r # o
    /\ run[r].pc = "done" /\ run[o].pc = "done"
    /\ run[o].realSessionId = Undefined
    /\ \E i \in IndicesOf(o, "session:ended") : sink[o][i].sessionId = run[o].tempId
    /\ \E i, j, k \in 1..Len(sink[r]) :
         /\ i < j /\ j < k
         /\ IsMessage(sink[r][i]) /\ Truthy(sink[r][i].message.sessionId)
         /\ sink[r][j].type = "attention:requested"
         /\ sink[r][j].attention.type = "permission"
         /\ sink[r][j].attention.sessionId = run[r].realSessionId
         /\ sink[r][k].type = "session:ended"
         /\ sink[r][k].sessionId = run[r].realSessionId

\* ---------------------------------------------------------------------------
\* C17: the session:message events of a run are the events the engine
\* produced for it: the n-th session:message carries the engine's n-th
\* event, and there are as many as the run has consumed, however the runs
\* interleave.
MessagesInEngineOrder ==
  \A r \in Runs :
    /\ Len(MessagesOf(r)) = run[r].nmsg
    /\ \A n \in 1..Len(MessagesOf(r)) : MessagesOf(r)[n].message.n = n

\* two runs have consumed events in turn, one of them two with other events
\* of its own in between
MessagesInEngineOrderWitness ==
  \E r, o \in Runs :
    /\ r # o
    /\ run[r].nmsg = 2 /\ run[o].nmsg = 1
    /\ \E i, j, k \in 1..Len(sink[r]) :
         /\ i < j /\ j < k
         /\ IsMessage(sink[r][i]) /\ ~IsMessage(sink[r][j]) /\ IsMessage(sink[r][k])

\* run r has published session:ended with the given reason
Ended(r, reason) ==
  \E i \in IndicesOf(r, "session:ended") : sink[r][i].reason = reason

\* ---------------------------------------------------------------------------
\* C18: whichever way a run's event sequence ended (exhausted, failed,
\* cancelled), the run has taken its temporary id and its real id, if it has
\* one, out of the table and has published session:ended; from then on an
\* interrupt under either id returns false and changes nothing.
TerminationDeregisters ==
  /\ [](\A r \in Runs :
          run[r].pc = "done" =>
            /\ activeQueries[run[r].tempId] = 0
            /\ run[r].realSessionId # Undefined =>
                 activeQueries[run[r].realSessionId] = 0
            /\ KeysOf(r) = {}
            /\ IndicesOf(r, "session:ended") # {})
  /\ [][Interrupting =>
          \A r \in Runs :
            (/\ run[r].pc = "done"
             /\ lastCall'.sessionId \in {run[r].tempId, run[r].realSessionId})
            => (lastCall'.ret = "false" /\ UNCHANGED <<run, activeQueries>>)]_vars

\* one run was cancelled after its swap and has ended, another ended by
\* exhaustion, and an interrupt under the first one's real id has just
\* returned false
TerminationDeregistersWitness ==
  \E r, o \in Runs :
    /\ r # o
    /\ run[r].pc = "done" /\ run[r].aborted
    /\ run[r].realSessionId # Undefined
    /\ IncludesAbort(run[r].failure)
    /\ run[o].pc = "done" /\ run[o].failure = Undefined
    /\ lastCall.op = "interrupt"
    /\ lastCall.sessionId = run[r].realSessionId
    /\ lastCall.ret = "false"

\* the attention items run r has enqueued for its termination
TerminalItems(r) == {a \in Created : a.id = TerminalId(r)}

\* ---------------------------------------------------------------------------
\* C19: a run for which an interrupt returned true is reported, once its
\* event sequence has ended, as session:ended interrupted and by no
\* completion or error attention item.
CancelledReportedInterrupted ==
  \A r \in Runs :
    (run[r].pc = "done" /\ run[r].aborted) =>
      /\ Ended(r, "interrupted")
      /\ TerminalItems(r) = {}
      /\ ~MapHas(pending, TerminalId(r))

\* ---------------------------------------------------------------------------
\* C20: a run that was never interrupted and whose event sequence failed has
\* enqueued exactly one error item, carrying its effective id and the
\* failure message, has published attention:requested for it and no
\* session:ended interrupted, and has ended with session:ended completed.
FailureReportedAsError ==
  \A r \in Runs :
    (run[r].pc = "done" /\ ~run[r].aborted /\ run[r].failure # Undefined) =>
      /\ TerminalItems(r) =
           {createErrorAttention(TerminalId(r), EffectiveId(run[r]), run[r].failure)}
      /\ Cardinality({i \in IndicesOf(r, "attention:requested") :
                        sink[r][i].attention.type = "error"}) = 1
      /\ ~Ended(r, "interrupted")
      /\ sink[r][Len(sink[r])] = EndedEvent(EffectiveId(run[r]), "completed")
         \/ /\ sink[r][Len(sink[r])].type = "session:created"
            /\ Ended(r, "completed")

\* the step resolves attention id through POST /attention/:id/resolve
Resolving(id) ==
  lastCall'.op = "resolve" /\ lastCall'.attnId = id /\ lastCall'.ret = "true"

\* the step is a clearForSession(sessionId)
Clearing(sessionId) ==
  /\ lastCall' = NoCall
  /\ pending' = SelectSeq(pending, LAMBDA a : a.sessionId # sessionId)
  /\ pending' # pending

\* ---------------------------------------------------------------------------
\* C21: a run whose event sequence is exhausted enqueues exactly one
\* completion item carrying its effective id and publishes
\* attention:requested for it after its last session:message and before
\* session:ended; the item stays pending until it is resolved (or cleared).
CompletionOnExhaustion ==
  /\ [](\A r \in Runs :
          (run[r].pc = "done" /\ run[r].failure = Undefined) =>
            LET item == createCompletionAttention(TerminalId(r), EffectiveId(run[r]),
                                                  "Query completed")
                asked == {i \in IndicesOf(r, "attention:requested") :
                            sink[r][i].attention.type = "completion"}
            IN /\ TerminalItems(r) = {item}
               /\ Cardinality(asked) = 1
               /\ \A i \in asked :
                    /\ sink[r][i].attention = item
                    /\ \A j \in IndicesOf(r, "session:message") : j < i
                    /\ \A j \in IndicesOf(r, "session:ended") : i < j
               /\ IndicesOf(r, "session:ended") # {})
  /\ [][\A r \in Runs :
          /\ (run[r].pc = "streaming" /\ run'[r].pc = "done"
                 /\ run'[r].failure = Undefined) =>
               /\ ~MapHas(pending, TerminalId(r))
               /\ MapHas(pending', TerminalId(r))
               /\ MapGet(pending', TerminalId(r)).type = "completion"
          /\ MapHas(pending, TerminalId(r)) =>
               \/ MapHas(pending', TerminalId(r))
                     /\ MapGet(pending', TerminalId(r)) = MapGet(pending, TerminalId(r))
               \/ Resolving(TerminalId(r))
               \/ Clearing(MapGet(pending, TerminalId(r)).sessionId)]_vars

\* a completion item announced after two events of other kinds is still
\* pending while other calls have been made
CompletionOnExhaustionWitness ==
  \E r \in Runs :
    /\ run[r].pc = "done" /\ run[r].failure = Undefined
    /\ run[r].nmsg > 0 /\ run[r].nperm > 0
    /\ MapHas(pending, TerminalId(r))
    /\ lastCall.op = "resolve" /\ lastCall.ret = "false"

\* attention id keeps its place in the registry over the step: same item,
\* same resolver registration, no record written
Kept(id) ==
  /\ MapHas(pending', id)
  /\ MapGet(pending', id) = MapGet(pending, id)
  /\ (id \in DOMAIN resolvers') = (id \in DOMAIN resolvers)
  /\ RecordCount(id)' = RecordCount(id)

\* ---------------------------------------------------------------------------
\* C22: an interrupt leaves the Attention Registry as it is, and so does the
\* cancelled run's teardown with the items that were pending: a pending
\* permission item is not resolved, gets no InteractionRecord, and stays
\* in getPending() until a resolve or a clearForSession takes it out.
InterruptKeepsPending ==
  [][/\ Interrupting => UNCHANGED amVars
     /\ \A id \in PermIds :
          MapHas(pending, id) =>
            \/ Kept(id)
            \/ Resolving(id)
            \/ Clearing(MapGet(pending, id).sessionId)]_vars

\* a run was interrupted while its permission item was pending and has ended
\* as interrupted; the item is still pending, unresolved and unrecorded
InterruptKeepsPendingWitness ==
  \E r \in Runs : \E id \in PermIds :
    /\ run[r].pc = "done" /\ run[r].aborted
    /\ Ended(r, "interrupted")
    /\ id \in DOMAIN awaiting /\ awaiting[id] = r
    /\ MapHas(pending, id)
    /\ MapGet(pending, id) \in Range(getPending)
    /\ id \in DOMAIN resolvers
    /\ RecordCount(id) = 0
    /\ okResolves[id] = 0

\* the pending items run r has created
ItemsOf(r) ==
  {pending[i] : i \in {j \in 1..Len(pending) :
                         \/ pending[j].id = TerminalId(r)
                         \/ /\ pending[j].id \in DOMAIN awaiting
                            /\ awaiting[pending[j].id] = r}}

\* the step cancels run a: an interrupt that signals a's handle, or the
\* teardown of a after such an interrupt
CancelStep(a) ==
  \/ /\ Interrupting
     /\ lastCall'.ret = "true"
     /\ activeQueries[lastCall'.sessionId] = a
  \/ /\ run[a].aborted
     /\ run[a].pc = "streaming"
     /\ run'[a].pc = "done"

\* ---------------------------------------------------------------------------
\* C23: for two runs executing at the same time, cancelling one (the
\* interrupt and the teardown that follows) removes none of the other's
\* pending attention items and leaves the other's table entry in place.
CancelSparesOtherRuns ==
  [][\A a, b \in Runs :
       (a # b /\ run[b].pc = "streaming" /\ CancelStep(a)) =>
         /\ ItemsOf(b)' = ItemsOf(b)
         /\ KeysOf(b)' = KeysOf(b)]_vars

\* ---------------------------------------------------------------------------
\* C24: while a run is suspended in its permission callback, every other run
\* can take each of its own steps: it can be launched, its next engine
\* event is forwarded, its sequence can end, and its pending items can be
\* resolved.
NoRunBlocksAnother ==
  \A a, b \in Runs :
    (a # b /\ Outstanding(a)) =>
      /\ (run[b].pc = "idle" /\ (IF b = 1 THEN TRUE ELSE run[b - 1].pc # "idle")) =>
           ENABLED runQuery(b, TempNames[b])
      /\ (run[b].pc = "streaming" /\ ~Outstanding(b)) =>
           /\ ENABLED EngineDone(b)
           /\ ENABLED EngineMessage(b, RealNames[b])
           /\ (~run[b].aborted /\ PermCount < MaxPerms) =>
                \A n \in ToolNames : \A i \in WireInputs : \A t \in WireToolUseIds :
                  ENABLED canUseTool(b, n, i, t)
      /\ run[b].pc = "streaming" => ENABLED EngineThrow(b, "boom")
      /\ \A item \in ItemsOf(b) :
           \A res \in WireResolutions : ResolveOutcome(item.id, TRUE) = "true"

\* run a is still suspended on its unresolved item; run b has forwarded an
\* event, has ended, and its completion item has been resolved
NoRunBlocksAnotherWitness ==
  \E a, b \in Runs : \E id \in PermIds :
    /\ a # b
    /\ id \in DOMAIN awaiting /\ awaiting[id] = a
    /\ MapHas(pending, id) /\ okResolves[id] = 0
    /\ run[a].pc = "streaming" /\ ~run[a].aborted
    /\ run[b].pc = "done" /\ run[b].nmsg > 0
    /\ Ended(b, "completed")
    /\ okResolves[TerminalId(b)] = 1

\* ---------------------------------------------------------------------------
\* C25: clearForSession(sessionId) takes out of pending exactly the items of
\* that session, writes no InteractionRecord, publishes nothing and fulfils
\* no promise; every other item stays pending, unchanged, with its resolver
\* registration.
ClearRemovesOnlyMatching ==
  [][\A sid \in SessionIds :
       ClearForSession(sid) =>
         /\ \A a \in Range(pending) :
              IF a.sessionId = sid
              THEN ~MapHas(pending', a.id)
              ELSE /\ MapHas(pending', a.id)
                   /\ MapGet(pending', a.id) = a
                   /\ a.id \in DOMAIN resolvers =>
                        /\ a.id \in DOMAIN resolvers'
                        /\ resolvers'[a.id] = resolvers[a.id]
         /\ Range(pending') \subseteq Range(pending)
         /\ DOMAIN resolvers' \subseteq DOMAIN resolvers
         /\ UNCHANGED <<interactions, amSink, sink, settled, returned, awaiting,
                        okResolves>>]_vars

\* the item a caller waits for was dropped with its registration, never
\* resolved, while an item of another session is pending with its own
ClearRemovesOnlyMatchingWitness ==
  \E p \in DOMAIN awaiting : \E other \in RegistryIds :
    /\ ~MapHas(pending, awaiting[p])
    /\ awaiting[p] \notin DOMAIN resolvers
    /\ okResolves[awaiting[p]] = 0
    /\ \A q \in DOMAIN awaiting : awaiting[q] = awaiting[p] => q = p
    /\ p \notin DOMAIN settled
    /\ other # awaiting[p]
    /\ MapHas(pending, other)
    /\ other \in DOMAIN resolvers

\* ---------------------------------------------------------------------------
\* C26: the promise of runQuery never rejects: a failure of the engine, at
\* its start or in mid-stream, after an interrupt or without one, ends the
\* run normally and is reported through session:ended and, unless it is
\* taken for a cancellation, through an error attention item.
LaunchNeverRejects ==
  \A r \in Runs :
    /\ run[r].pc \in {"idle", "streaming", "done"}
    /\ run[r].failure # Undefined =>
         /\ run[r].pc = "done"
         /\ Ended(r, "completed")
         /\ IF IncludesAbort(run[r].failure)
            THEN Ended(r, "interrupted")
            ELSE \E item \in TerminalItems(r) :
                   /\ item.type = "error"
                   /\ item.message = run[r].failure
                   /\ MapHas(pending, item.id)

\* one run failed before its first event, another in mid-stream after an
\* interrupt; both have ended and are reported
LaunchNeverRejectsWitness ==
  \E r, o \in Runs :
    /\ r # o
    /\ run[r].pc = "done" /\ run[r].nmsg = 0 /\ run[r].failure = "boom"
    /\ run[o].pc = "done" /\ run[o].nmsg > 0 /\ run[o].aborted
    /\ IncludesAbort(run[o].failure)

\* ---------------------------------------------------------------------------
\* C27: after POST /sessions without a prompt has returned a tempId, a POST
\* /sessions/<tempId>/send with a message is answered with sent: true and
\* registers a run for it.
PendingSessionSendLaunches ==
  [][(/\ lastCall'.op = "send"
      /\ \E r \in Runs : run[r].pc = "pending" /\ run[r].tempId = lastCall'.sessionId)
     => /\ lastCall'.http = 200
        /\ lastCall'.ret = "sent"
        /\ activeQueries'[lastCall'.sessionId] # 0]_vars

\* the events of one kind that run r has published about attention id
EventsAbout(r, type, id) ==
  {i \in IndicesOf(r, type) :
     IF type = "attention:requested" THEN sink[r][i].attention.id = id
     ELSE sink[r][i].attentionId = id}

\* ---------------------------------------------------------------------------
\* C28: an invocation of the permission callback adds its item and publishes
\* attention:requested, then is suspended, then publishes attention:resolved
\* and returns; what it returns is the object its promise was fulfilled
\* with, unchanged.
CallbackSequence ==
  /\ [](\A r \in Runs : \A id \in PermIds :
          LET asked == EventsAbout(r, "attention:requested", id)
              answered == EventsAbout(r, "attention:resolved", id)
              mine == (id \in DOMAIN awaiting /\ awaiting[id] = r) \/ answered # {}
          IN /\ asked # {} => (Cardinality(asked) = 1 /\ mine)
             /\ (id \in DOMAIN awaiting /\ awaiting[id] = r) =>
                  (asked # {} /\ answered = {} /\ id \notin DOMAIN returned)
             /\ answered # {} =>
                  /\ Cardinality(answered) = 1
                  /\ id \in DOMAIN returned
                  /\ id \notin DOMAIN awaiting
                  /\ \A i \in asked : \A j \in answered : i < j
             /\ (id \in DOMAIN returned /\ asked # {}) => answered # {})
  /\ [][\A id \in PermIds :
          /\ (id \notin DOMAIN awaiting /\ id \in DOMAIN awaiting') =>
               /\ MapHas(pending', id) /\ ~MapHas(pending, id)
               /\ id \in DOMAIN resolvers'
               /\ sink'[awaiting'[id]] =
                    Append(sink[awaiting'[id]], RequestedEvent(MapGet(pending', id)))
          /\ (id \notin DOMAIN returned /\ id \in DOMAIN returned') =>
               /\ id \in DOMAIN settled
               /\ returned'[id] = settled[id]
               /\ sink'[awaiting[id]] = Append(sink[awaiting[id]], ResolvedEvent(id))]_vars

\* an invocation has run through: requested, resolved, and a deny payload
\* returned
CallbackSequenceWitness ==
  \E r \in Runs : \E id \in PermIds :
    /\ EventsAbout(r, "attention:requested", id) # {}
    /\ EventsAbout(r, "attention:resolved", id) # {}
    /\ id \in DOMAIN returned
    /\ returned[id].behavior = "deny"

\* the callback suspended on attention id was abandoned: its item and its
\* resolver are gone and its promise was not fulfilled
Abandoned(id) ==
  /\ id \in DOMAIN awaiting
  /\ ~MapHas(pending, id)
  /\ id \notin DOMAIN resolvers
  /\ id \notin DOMAIN settled

\* ---------------------------------------------------------------------------
\* C29: when clearForSession drops a pending permission item on which a
\* callback is suspended, the callback is abandoned and stays so whatever
\* happens next: a resolve on that id returns false, and the callback never
\* returns.
ClearedAwaiterNeverWoken ==
  [][\A id \in PermIds :
       /\ (/\ id \in DOMAIN awaiting
           /\ MapHas(pending, id)
           /\ Clearing(MapGet(pending, id).sessionId)) => Abandoned(id)'
       /\ Abandoned(id) =>
            /\ Abandoned(id)'
            /\ id \notin DOMAIN returned'
            /\ (lastCall'.op = "resolve" /\ lastCall'.attnId = id) =>
                 (lastCall'.ret = "false" /\ lastCall'.http = 404)]_vars

\* a resolve on the id of an abandoned callback has just returned false,
\* after the callback's run was interrupted as well
ClearedAwaiterNeverWokenWitness ==
  \E id \in PermIds :
    /\ Abandoned(id)
    /\ run[awaiting[id]].aborted
    /\ lastCall.op = "resolve"
    /\ lastCall.attnId = id
    /\ lastCall.ret = "false"

\* promise p is awaited by a caller but is not the one registered for the
\* id the caller waits for
Unregistered(p) ==
  /\ p \in DOMAIN awaiting
  /\ p \notin DOMAIN settled
  /\ awaiting[p] \in DOMAIN resolvers => resolvers[awaiting[p]] # p

\* ---------------------------------------------------------------------------
\* C30: a second waitForResolution on an id replaces the first
\* registration: the registry holds the promise of the latest call, a
\* resolve fulfils that promise alone, with the payload, and the promise of
\* the replaced call is never fulfilled.
SecondWaitReplacesFirst ==
  [][/\ \A p \in AttnIds :
          /\ (p \notin DOMAIN awaiting /\ p \in DOMAIN awaiting') =>
               /\ awaiting'[p] \in DOMAIN resolvers'
               /\ resolvers'[awaiting'[p]] = p
          /\ Unregistered(p) => Unregistered(p)'
     /\ \A id \in RegistryIds :
          Resolving(id) =>
            settled' = IF id \in DOMAIN resolvers
                       THEN (resolvers[id] :>
                               BuildResult(MapGet(pending, id), lastCall'.body))
                            @@ settled
                       ELSE settled]_vars

\* two callers waited on the same id; the resolve fulfilled the promise of
\* one of them and the other is left unregistered
SecondWaitReplacesFirstWitness ==
  \E p, q \in DOMAIN awaiting :
    /\ p # q
    /\ awaiting[p] = awaiting[q]
    /\ Unregistered(p)
    /\ q \in DOMAIN settled
    /\ settled[q].behavior = "allow"
    /\ okResolves[awaiting[p]] = 1
    /\ lastCall.op = "resolve" /\ lastCall.ret = "true"

\* the entries of getPending() stored under attention id
EntriesOf(id) == {k \in 1..Len(getPending) : getPending[k].id = id}

\* ---------------------------------------------------------------------------
\* C31: add(item) makes the item visible in getPending() and publishes and
\* persists nothing; when the id is already pending the stored item is
\* replaced, so that getPending() holds exactly one entry for the id, the
\* new item, and every other entry is as it was.
AddShowsItemOnce ==
  /\ [](\A id \in AttnIds : Cardinality(EntriesOf(id)) <= 1)
  /\ [][\A id \in RegistryIds, sid \in RegistrySessions, n \in ToolNames,
           i \in WireInputs, t \in WireToolUseIds :
          RegistryAdd(id, sid, n, i, t) =>
            LET item == createPermissionAttention(id, sid, n, i, t)
            IN /\ item \in Range(getPending')
               /\ Cardinality(EntriesOf(id)') = 1
               /\ Len(getPending') =
                    (IF MapHas(pending, id) THEN Len(getPending)
                     ELSE Len(getPending) + 1)
               /\ \A a \in Range(getPending) : a.id # id => a \in Range(getPending')
               /\ UNCHANGED <<amSink, sink, interactions, resolvers, settled,
                              returned, awaiting, okResolves>>]_vars

\* an add has just replaced the pending item of its id by an item of another
\* session, while a second item is pending
AddShowsItemOnceWitness ==
  /\ lastCall.op = "add"
  /\ lastCall.ret = "replaced"
  /\ Len(getPending) = 2
  /\ MapGet(pending, lastCall.attnId).sessionId = lastCall.sessionId
  /\ \E a \in Range(getPending) :
       a.id # lastCall.attnId /\ a.sessionId # lastCall.sessionId

\* the interaction:resolved events about attention id that carry sessionId
InteractionEventsUnder(sessionId, id) ==
  {k \in 1..Len(amSink) : /\ amSink[k].type = "interaction:resolved"
                          /\ amSink[k].interaction.id = id
                          /\ amSink[k].sessionId = sessionId}

\* ---------------------------------------------------------------------------
\* C32: a permission item created while its run was under its temporary id
\* keeps that id after the identity swap: getPending() shows it with the
\* temporary id, and once it is resolved its InteractionRecord and its
\* interaction:resolved event are filed under the temporary id and not
\* under the real id.
ItemKeepsCreationId ==
  \A r \in Runs : \A id \in PermIds :
    (/\ EventsAbout(r, "attention:requested", id) # {}
     /\ AttentionOf(id).sessionId = run[r].tempId
     /\ run[r].realSessionId # Undefined)
    => /\ MapHas(getPending, id) => MapGet(getPending, id).sessionId = run[r].tempId
       /\ okResolves[id] >= 1 =>
            /\ RecordsIn(run[r].tempId, id) = 1
            /\ RecordsIn(run[r].realSessionId, id) = 0
            /\ Cardinality(InteractionEventsUnder(run[r].tempId, id)) = 1
            /\ InteractionEventsUnder(run[r].realSessionId, id) = {}

\* positions of run r's session:message events whose engine event carries a
\* sessionId
Carrying(r) ==
  {i \in IndicesOf(r, "session:message") : Truthy(sink[r][i].message.sessionId)}

\* the step is a turn of run r's loop body
Consuming(r) == run'[r].nmsg = run[r].nmsg + 1

InterruptedOnlyAfterInterrupt ==
  \A r \in Runs : Ended(r, "interrupted") => run[r].aborted

\* ---------------------------------------------------------------------------
\* C35: every run whose event sequence has ended has published session:ended
\* completed exactly once, as the last of its session:ended events; a run
\* that was cancelled has published two session:ended events, interrupted
\* first and completed second, with the same sessionId.
EndedCompletedLast ==
  \A r \in Runs :
    run[r].pc = "done" =>
      LET ended == IndicesOf(r, "session:ended")
          completed == {i \in ended : sink[r][i].reason = "completed"}
          interrupted == {i \in ended : sink[r][i].reason = "interrupted"}
      IN /\ Cardinality(completed) = 1
         /\ \A i \in completed : \A j \in ended : j <= i
         /\ run[r].aborted =>
              /\ Cardinality(ended) = 2
              /\ Cardinality(interrupted) = 1
              /\ \A i \in interrupted : \A j \in completed :
                   i < j /\ sink[r][i].sessionId = sink[r][j].sessionId

\* ---------------------------------------------------------------------------
\* C36: between event-loop turns every pending permission item created by a
\* callback has a registered awaiter and every registered awaiter id is the
\* id of a pending item, so no resolve falls between the add and the
\* registration: a resolve that returns true for the item of a suspended
\* callback fulfils the promise of that callback.
NoLostWakeup ==
  /\ [](/\ \A a \in Range(pending) :
            a.type = "permission" => a.id \in DOMAIN resolvers
        /\ \A id \in DOMAIN resolvers :
            MapHas(pending, id) /\ MapGet(pending, id).type = "permission")
  /\ [][\A id \in PermIds :
          /\ (id \notin DOMAIN awaiting /\ id \in DOMAIN awaiting') =>
               (MapHas(pending', id) /\ id \in DOMAIN resolvers')
          /\ (Resolving(id) /\ id \in DOMAIN awaiting) =>
               (id \in DOMAIN settled' /\ id \notin DOMAIN resolvers')]_vars

\* a resolve has just taken effect on the completion item of one run while
\* the callback of another run is suspended on its pending item, awaiter
\* registered
NoLostWakeupWitness ==
  \E id \in PermIds : \E o \in Runs :
    /\ id \in DOMAIN awaiting /\ awaiting[id] # o
    /\ MapHas(pending, id)
    /\ id \in DOMAIN resolvers
    /\ lastCall.op = "resolve" /\ lastCall.ret = "true"
    /\ lastCall.attnId = TerminalId(o)

\* ---------------------------------------------------------------------------
\* C37: once an interrupt has returned true for a run, the table never again
\* holds an entry for that run; an engine event carrying a sessionId that is
\* consumed after the interrupt does not register the run under its real id.
InterruptedRunStaysOut ==
  \A r \in Runs : run[r].aborted => KeysOf(r) = {}

\* ---------------------------------------------------------------------------
\* C38: every run that was launched and has neither ended nor been
\* interrupted is in the table under its current effective id with its own
\* handle, also when two runs are launched with the same id; no launch, swap
\* or teardown of one run overwrites or removes the entry of another live
\* run.
LiveRunsRegistered ==
  \A r \in Runs :
    (run[r].pc = "streaming" /\ ~run[r].aborted) =>
      activeQueries[EffectiveId(run[r])] = r

\* ---------------------------------------------------------------------------
\* C39: for a resolution whose behavior is neither allow nor deny (such as
\* allowAlways) the payload handed to the awaiter holds the behavior and
\* the item's toolUseID and nothing else: no updatedInput and no message,
\* whatever message the resolution body supplied.
OtherBehaviorBarePayload ==
  \A id \in PermIds : \A p \in Handed(id) :
    RecordOf(id).resolution \notin {"allow", "deny"}
      => /\ p.behavior = RecordOf(id).resolution
         /\ p.toolUseID = AttentionOf(id).toolUseId
         /\ p.updatedInput = Undefined
         /\ p.message = Undefined

\* an allowAlways whose body carries a message and an input, for an item with
\* a tool input of its own
OtherBehaviorBarePayloadWitness ==
  \E id \in DOMAIN settled :
    /\ lastCall.op = "resolve"
    /\ lastCall.attnId = id
    /\ lastCall.body.behavior = "allowAlways"
    /\ lastCall.body.message = "not this file"
    /\ lastCall.body.updatedInput = "{file:other.ts}"
    /\ AttentionOf(id).toolInput = "{file:a.ts}"
    /\ AttentionOf(id).toolUseId = "toolu_2"
    /\ settled[id] = [behavior |-> "allowAlways", toolUseID |-> "toolu_2",
                      updatedInput |-> Undefined, message |-> Undefined]

\* ---------------------------------------------------------------------------
\* C40: session:ended completed is the last event of a run: once it is
\* published the run publishes no session:message, session:created,
\* attention:requested or attention:resolved.
CompletedIsTerminal ==
  \A r \in Runs : \A i \in IndicesOf(r, "session:ended") :
    sink[r][i].reason = "completed" => i = Len(sink[r])

====
